---- MODULE Spec2Model ----
(***************************************************************************)
(* State-machine model of the session-scoped RAG service.                  *)
(*                                                                         *)
(* Two deployable applications share the model: backend/main.py (sessions  *)
(* with a session.json on disk, a SessionManager and an hourly sweep) and  *)
(* backend/ragai/main.py (a directory per upload plus the in-memory        *)
(* CONVERSATIONS map).  The variable app says which one is running.        *)
(*                                                                         *)
(* Every endpoint is an `async def` whose body never awaits anything that  *)
(* suspends, so on the single event loop each handler runs to completion   *)
(* before another task runs: one action per handler.                       *)
(*                                                                         *)
(* Time is counted in hours: datetime.now() is the variable now.           *)
(*                                                                         *)
(* Specifications: SpecRegistry (the SessionManager alone), Spec (the      *)
(* endpoints and the sweep of both applications), SpecRace (the backend    *)
(* with a query taken one file-system call at a time), SpecChunk (one call *)
(* of chunk_text on a sequence of tokens), SpecEmbed (one call of          *)
(* embed_chunks), SpecEnhance (one call of get_enhanced_query), SpecLoop   *)
(* (the periodic_cleanup task under a fair event loop) and SpecStream      *)
(* (ragai with the response streams running next to other requests).       *)
(***************************************************************************)
EXTENDS Integers, Sequences, FiniteSets, TLC

(* ------------------------------ bounds --------------------------------- *)
MaxTime == 2
MaxSessions == 2
MaxDocs == 1
MaxChunks == 2
MaxStream == 1
MaxTurns == 2
MaxTokens == 5
MaxChunkSize == 4
MaxBatch == 3
MaxHistory == 3
MaxPasses == 2
MaxOverlap == 2

(* ------------------------- program constants --------------------------- *)
IdleThreshold == 1
TopK == 3
AiTopK == 5
NoSid == -1

VARIABLES app, API_KEY, now, TEMP_DIR, artifacts, CONVERSATIONS,
          nextSid, nextDoc, last, inflight, chunker, call, periodic, streams

vars == <<app, API_KEY, now, TEMP_DIR, artifacts, CONVERSATIONS,
          nextSid, nextDoc, last, inflight, chunker, call, periodic, streams>>

(* Session ids: 0 is an entry left in temp/ by an earlier run of the       *)
(* process, 1..MaxSessions are the uuid4 values handed out in this run,    *)
(* BogusSid is an id no session ever had.                                  *)
Sids == 0..MaxSessions
BogusSid == MaxSessions + 1
DocIds == 1..MaxDocs
BogusDoc == MaxDocs + 1

(* What a client can send: ids it was given, or one it made up. *)
ArgSids == {s \in Sids : s < nextSid} \cup {BogusSid}
ArgDocs == {d \in DocIds : d < nextDoc} \cup {BogusDoc}

(* An entry of temp/: kind "none" (no entry), "ok" (directory with a       *)
(* readable session.json), "missing" (directory without session.json),     *)
(* "corrupt" (directory whose session.json does not parse).                *)
NoEntry == [kind |-> "none", created_at |-> 0, last_access |-> 0]
Entry(k, c, a) == [kind |-> k, created_at |-> c, last_access |-> a]

(* The index and chunk files of one document, and the session they are in. *)
NoDoc == [sid |-> NoSid, index |-> <<>>, chunks |-> <<>>]

NoConv == [present |-> FALSE, turns |-> <<>>]

(* No query is between two of its steps. *)
NoQuery == [pc |-> "idle", sid |-> NoSid, doc |-> 0]

(* No call of chunk_text is running. *)
(* No pure function is being applied on its own. *)
NoCall == [fn |-> "none"]

(* The periodic_cleanup task before startup_event created it. *)
NoTask == [pc |-> "none", passes |-> 0]

NoChunker == [pc |-> "idle", tokens |-> <<>>, chunk_size |-> 0, overlap |-> 0,
              start |-> 0, windows |-> <<>>, chunks |-> <<>>]

(* The filesystem below temp/ as one value, so that the steps of a handler *)
(* compose.                                                                *)
Cur == [T |-> TEMP_DIR, A |-> artifacts]

dir_exists(st, s) == s \in DOMAIN st.T /\ st.T[s].kind # "none"
session_file_exists(st, s) == s \in DOMAIN st.T /\ st.T[s].kind \in {"ok", "corrupt"}

(* An rmtree that is given temp/ itself. *)
rmtree_temp(st, s) ==
    [T |-> [x \in DOMAIN st.T |-> NoEntry],
     A |-> [d \in DOMAIN st.A |-> NoDoc]]

rmtree(st, s) ==
    [T |-> [st.T EXCEPT ![s] = NoEntry],
     A |-> [d \in DOMAIN st.A |-> IF st.A[d].sid = s THEN NoDoc ELSE st.A[d]]]

(* --------------------------- SessionManager ---------------------------- *)

create_session(st, sid, t) ==
    [st EXCEPT !.T[sid] = Entry("ok", t, t)]

(* update_session_access that writes a new session.json. *)
update_session_access_new_file(st, s, t) ==
    IF ~session_file_exists(st, s) THEN [ok |-> FALSE, st |-> st]
    ELSE IF st.T[s].kind = "corrupt" THEN [ok |-> FALSE, st |-> st]
    ELSE [ok |-> TRUE, st |-> [st EXCEPT !.T[s] = Entry("ok", t, t)]]

(* update_session_access that reports success without writing the file. *)
update_session_access_no_write(st, s, t) ==
    IF ~session_file_exists(st, s) THEN [ok |-> FALSE, st |-> st]
    ELSE IF st.T[s].kind = "corrupt" THEN [ok |-> FALSE, st |-> st]
    ELSE [ok |-> TRUE, st |-> st]

update_session_access(st, s, t) ==
    IF ~session_file_exists(st, s) THEN [ok |-> FALSE, st |-> st]
    ELSE IF st.T[s].kind = "corrupt" THEN [ok |-> FALSE, st |-> st]
    ELSE [ok |-> TRUE, st |-> [st EXCEPT !.T[s].last_access = t]]

cleanup_session(st, s) ==
    IF dir_exists(st, s) THEN rmtree(st, s) ELSE st

(* DELETE /api/rag/cleanup/{session_id}: SessionManager.cleanup_session    *)
(* swallows what shutil.rmtree raises, and the endpoint answers success.   *)
(* rmOK says whether rmtree can remove the directory; a failed rmtree is   *)
(* shown as removing nothing.                                              *)
cleanup_endpoint(st, s, rmOK) ==
    [st |-> IF dir_exists(st, s) /\ ~rmOK THEN st ELSE cleanup_session(st, s),
     ok |-> TRUE, log |-> "success"]

session_expired(last_access, t) == t - last_access > IdleThreshold

(* is_session_valid without the cleanup_session call of its expiry branch. *)
is_session_valid_keeps_dir(st, s, t) ==
    IF s = NoSid THEN [ok |-> FALSE, st |-> st, log |-> "no_id"]
    ELSE IF ~session_file_exists(st, s)
        THEN [ok |-> FALSE, st |-> st, log |-> "not_found"]
    ELSE IF st.T[s].kind = "corrupt"
        THEN [ok |-> FALSE, st |-> st, log |-> "error"]
    ELSE IF session_expired(st.T[s].last_access, t)
        THEN [ok |-> FALSE, st |-> st, log |-> "expired"]
    ELSE [ok |-> TRUE, st |-> st, log |-> "valid"]

is_session_valid(st, s, t) ==
    IF s = NoSid THEN [ok |-> FALSE, st |-> st, log |-> "no_id"]
    ELSE IF ~session_file_exists(st, s)
        THEN [ok |-> FALSE, st |-> st, log |-> "not_found"]
    ELSE IF st.T[s].kind = "corrupt"
        THEN [ok |-> FALSE, st |-> st, log |-> "error"]
    ELSE IF session_expired(st.T[s].last_access, t)
        THEN [ok |-> FALSE, st |-> cleanup_session(st, s), log |-> "expired"]
    ELSE [ok |-> TRUE, st |-> st, log |-> "valid"]

get_session_dir(st, s, t) ==
    LET u == update_session_access(st, s, t)
    IN  [ok |-> u.ok, st |-> u.st,
         log |-> IF u.ok THEN "dir" ELSE "ValueError"]

(* The sweep's comparison with >= for >. *)
sweep_expired_at_threshold(last_access, t) == t - last_access >= IdleThreshold

sweep_expired(last_access, t) == t - last_access > IdleThreshold

(* One pass over temp/ in the order iterdir() yields the entries; the      *)
(* try/except is around the whole loop, so an exception ends the pass.     *)
RECURSIVE sweep_from(_, _, _, _)
sweep_from(st, ord, i, t) ==
    IF i > Len(ord) THEN [st |-> st, log |-> "done"]
    ELSE LET s == ord[i]
             e == st.T[s]
         IN  IF e.kind = "missing" THEN sweep_from(rmtree(st, s), ord, i + 1, t)
             ELSE IF e.kind = "corrupt" THEN [st |-> st, log |-> "error"]
             ELSE IF sweep_expired(e.last_access, t)
                 THEN sweep_from(rmtree(st, s), ord, i + 1, t)
             ELSE sweep_from(st, ord, i + 1, t)

cleanup_old_sessions(st, ord, t) == sweep_from(st, ord, 1, t)

(* The orders in which iterdir() can yield the entries of temp/. *)
iterdir(st) ==
    LET D == {s \in DOMAIN st.T : st.T[s].kind # "none"}
    IN  {f \in [1..Cardinality(D) -> D] :
            \A i, j \in 1..Cardinality(D) : i # j => f[i] # f[j]}


(* ---------------------- ingestion (process_pdf) ------------------------ *)
(* The collaborators are inputs of a request: which stage raises or comes  *)
(* back empty, how many chunks chunk_text returns, whether the batch       *)
(* encode raises and which single chunks embed_text can encode.            *)
Stages == {"none", "save", "extract", "store", "persist"}

(* chunk_text: n chunks, told apart by their position in the text. *)
chunk_text(n) == [i \in 1..n |-> i]

(* model.encode on one text: a vector that determines the text. *)
encode(c) == [vec |-> c]

embed_text(c, okItems) == IF c \in okItems THEN <<encode(c)>> ELSE <<>>

(* A fallback that gives up as soon as one item fails. *)
fallback_all_or_nothing(chunks, i, okItems) ==
    IF \E k \in i..Len(chunks) : chunks[k] \notin okItems THEN <<>>
    ELSE [k \in 1..(Len(chunks) - i + 1) |-> encode(chunks[k + i - 1])]

(* The per-item fallback of embed_chunks: results of the items that       *)
(* embed_text could encode, in order.                                      *)
RECURSIVE fallback(_, _, _)
fallback(chunks, i, okItems) ==
    IF i > Len(chunks) THEN <<>>
    ELSE embed_text(chunks[i], okItems) \o fallback(chunks, i + 1, okItems)

(* embed_chunks; None is the empty sequence (np.array of no rows is never  *)
(* returned: `if results else None`).                                      *)
embed_chunks(chunks, batchOK, okItems) ==
    IF chunks = <<>> THEN <<>>
    ELSE IF batchOK THEN [i \in 1..Len(chunks) |-> encode(chunks[i])]
    ELSE fallback(chunks, 1, okItems)

(* save_upload followed by process_pdf: the artifacts written, or the      *)
(* stage that raised.                                                      *)
process_pdf(fail, n, batchOK, okItems) ==
    LET chunks == chunk_text(n)
        embeddings == embed_chunks(chunks, batchOK, okItems)
    IN  IF fail = "save" THEN [ok |-> FALSE, index |-> <<>>, chunks |-> <<>>, log |-> "save"]
        ELSE IF fail = "extract"
            THEN [ok |-> FALSE, index |-> <<>>, chunks |-> <<>>, log |-> "extract"]
        ELSE IF chunks = <<>>
            THEN [ok |-> FALSE, index |-> <<>>, chunks |-> <<>>, log |-> "chunk"]
        ELSE IF embeddings = <<>>
            THEN [ok |-> FALSE, index |-> <<>>, chunks |-> <<>>, log |-> "embed"]
        ELSE IF fail = "store"
            THEN [ok |-> FALSE, index |-> <<>>, chunks |-> <<>>, log |-> "store"]
        ELSE IF fail = "persist"
            THEN [ok |-> FALSE, index |-> embeddings, chunks |-> <<>>, log |-> "persist"]
        ELSE [ok |-> TRUE, index |-> embeddings, chunks |-> chunks, log |-> "success"]

(* The file-name test placed after the session has been settled. *)
reject_upload_after_session(st, sidArg, newSid, t) ==
    LET v == is_session_valid(st, sidArg, t)
    IN  IF (sidArg = NoSid \/ ~v.ok) /\ newSid \in DOMAIN st.T
        THEN create_session(v.st, newSid, t)
        ELSE v.st

(* upload_file for a file whose name does not end in .pdf: HTTPException   *)
(* 400 is raised by the first statement, before the try block.             *)
reject_upload(st, sidArg, newSid, t) == st

(* upload_file whose except branch does not clean up. *)
upload_file_no_cleanup(st, sidArg, newSid, newDoc, t, fail, n, batchOK, okItems) ==
    LET v == is_session_valid(st, sidArg, t)
        fresh == sidArg = NoSid \/ ~v.ok
        sid == IF fresh THEN newSid ELSE sidArg
        st1 == IF fresh THEN create_session(v.st, newSid, t)
                        ELSE update_session_access(v.st, sidArg, t).st
        p == process_pdf(fail, n, batchOK, okItems)
        st2 == IF p.ok
               THEN [st1 EXCEPT !.A[newDoc] =
                        [sid |-> sid, index |-> p.index, chunks |-> p.chunks]]
               ELSE st1
    IN  [ok |-> p.ok, st |-> st2, sid |-> sid, fresh |-> fresh, log |-> p.log]

(* What upload_file does to the filesystem once the file is known to be a  *)
(* PDF: the session it ends up using, and the result of the ingestion.     *)
upload_file(st, sidArg, newSid, newDoc, t, fail, n, batchOK, okItems) ==
    LET v == is_session_valid(st, sidArg, t)
        fresh == sidArg = NoSid \/ ~v.ok
        sid == IF fresh THEN newSid ELSE sidArg
        st1 == IF fresh THEN create_session(v.st, newSid, t)
                        ELSE update_session_access(v.st, sidArg, t).st
        p == process_pdf(fail, n, batchOK, okItems)
        st2 == IF p.ok
               THEN [st1 EXCEPT !.A[newDoc] =
                        [sid |-> sid, index |-> p.index, chunks |-> p.chunks]]
               ELSE cleanup_session(st1, sid)
    IN  [ok |-> p.ok, st |-> st2, sid |-> sid, fresh |-> fresh, log |-> p.log]


(* ------------------------- query (backend) ----------------------------- *)
(* One increment of a streamed body: f"{pre}{msg}".                        *)
Inc(pre, msg) == [pre |-> pre, msg |-> msg]
Text == Inc("", "text")

(* error_stream(error_msg): yield f"Error: {error_msg}" *)
error_stream(msg) == <<Inc("Error: ", msg)>>

(* Orders of the rows of an index by distance to a query vector. *)
Orders(n) == {f \in [1..n -> 1..n] : \A i, j \in 1..n : i # j => f[i] # f[j]}

(* faiss IndexFlatL2.search(vector, k)[1][0]: the k nearest row numbers,   *)
(* counted from 0, padded with -1 when the index holds fewer than k rows.  *)
search(index, ord, k) ==
    [j \in 1..k |-> IF j <= Len(index) THEN ord[j] - 1 ELSE 0 - 1]

(* Python's chunks[i]: i counts from 0, a negative i from the end; the     *)
(* empty sequence stands for IndexError.                                   *)
getitem(chunks, i) ==
    IF i >= 0 /\ i < Len(chunks) THEN <<chunks[i + 1]>>
    ELSE IF i < 0 /\ 0 - i <= Len(chunks) THEN <<chunks[Len(chunks) + i + 1]>>
    ELSE <<>>

RECURSIVE context_from(_, _, _)
context_from(chunks, I, j) ==
    IF j > Len(I) THEN [ok |-> TRUE, ctx |-> <<>>]
    ELSE LET c == getitem(chunks, I[j])
             rest == context_from(chunks, I, j + 1)
         IN  IF c = <<>> \/ ~rest.ok THEN [ok |-> FALSE, ctx |-> <<>>]
             ELSE [ok |-> TRUE, ctx |-> c \o rest.ctx]

(* generate_answer(context, question, stream=True): a string when the key  *)
(* is not set or generate_content raises, the response stream otherwise.   *)
generate_answer(key, genRaises) ==
    IF ~key THEN "str" ELSE IF genRaises THEN "str" ELSE "stream"

(* generate(): the increments relayed for a response.  Iterating a string  *)
(* yields its characters, which have no .text: the except branch answers.  *)
generate(response, nText, streamFails) ==
    IF response = "str"
        THEN <<Inc("\nError during response generation: ", "AttributeError")>>
    ELSE [i \in 1..nText |-> Text] \o
         (IF streamFails
             THEN <<Inc("\nError during response generation: ", "stream")>>
             ELSE <<>>)

query_document(st, sidArg, docArg, t, key, loadOK, embedOK, ord, genRaises, nText, streamFails) ==
    LET v == is_session_valid(st, sidArg, t)
        st1 == update_session_access(v.st, sidArg, t).st
        found == docArg \in DOMAIN st1.A /\ st1.A[docArg].sid = sidArg
        doc == st1.A[docArg]
        I == search(doc.index, ord, TopK)
        c == context_from(doc.chunks, I, 1)
        response == generate_answer(key, genRaises)
    IN  IF ~v.ok
            THEN [st |-> v.st, ok |-> FALSE, log |-> "invalid", calls |-> {},
                  body |-> error_stream("Session expired or invalid")]
        ELSE IF ~found
            THEN [st |-> st1, ok |-> FALSE, log |-> "not_found", calls |-> {},
                  body |-> error_stream("File not found or processing incomplete")]
        ELSE IF ~loadOK
            THEN [st |-> st1, ok |-> FALSE, log |-> "load", calls |-> {"load"},
                  body |-> error_stream("load")]
        ELSE IF ~embedOK
            THEN [st |-> st1, ok |-> FALSE, log |-> "embed",
                  calls |-> {"load", "embed"},
                  body |-> error_stream("Failed to generate query embedding")]
        ELSE IF Len(I) = 0
            THEN [st |-> st1, ok |-> FALSE, log |-> "empty",
                  calls |-> {"load", "embed", "search"},
                  body |-> error_stream("No relevant content found")]
        ELSE IF ~c.ok
            THEN [st |-> st1, ok |-> FALSE, log |-> "index",
                  calls |-> {"load", "embed", "search"},
                  body |-> error_stream("IndexError")]
        ELSE [st |-> st1,
              ok |-> response = "stream" /\ ~streamFails,
              log |-> IF response = "str" THEN "llm" ELSE
                      IF streamFails THEN "stream" ELSE "answer",
              calls |-> {"load", "embed", "search", "llm"},
              body |-> generate(response, nText, streamFails)]


(* ------------------ query (backend), statement by statement ------------ *)
(* temp/ is shared by every process that serves the application and by     *)
(* whoever else removes files from it, so between two file-system calls of *)
(* one query another process may delete the session.  The statements of    *)
(* query_document between which that can happen: is_session_valid,         *)
(* update_session_access, the two exists() tests, load_index_and_chunks.   *)
query_files_exist(st, s, d) == d \in DOMAIN st.A /\ st.A[d].sid = s

(* query_document from load_index_and_chunks on, without the outer         *)
(* try/except: faiss.read_index raising on a file that is gone leaves the  *)
(* handler.                                                                *)
query_from_load_uncaught(st, s, d, key, loadOK, embedOK, ord, genRaises, nText, streamFails) ==
    LET doc == st.A[d]
        I == search(doc.index, ord, TopK)
        c == context_from(doc.chunks, I, 1)
        response == generate_answer(key, genRaises)
    IN  IF ~query_files_exist(st, s, d)
            THEN [ok |-> FALSE, log |-> "vanished", raised |-> TRUE, body |-> <<>>]
        ELSE IF ~loadOK
            THEN [ok |-> FALSE, log |-> "load", raised |-> TRUE, body |-> <<>>]
        ELSE IF ~embedOK
            THEN [ok |-> FALSE, log |-> "embed", raised |-> FALSE,
                  body |-> error_stream("Failed to generate query embedding")]
        ELSE IF Len(I) = 0
            THEN [ok |-> FALSE, log |-> "empty", raised |-> FALSE,
                  body |-> error_stream("No relevant content found")]
        ELSE IF ~c.ok
            THEN [ok |-> FALSE, log |-> "index", raised |-> TRUE, body |-> <<>>]
        ELSE [ok |-> response = "stream" /\ ~streamFails,
              log |-> IF response = "str" THEN "llm" ELSE
                      IF streamFails THEN "stream" ELSE "answer",
              raised |-> FALSE,
              body |-> generate(response, nText, streamFails)]

(* query_document from load_index_and_chunks on: what read_index, open or  *)
(* chunks[i] raise is caught by the outer except and streamed.             *)
query_from_load(st, s, d, key, loadOK, embedOK, ord, genRaises, nText, streamFails) ==
    LET doc == st.A[d]
        I == search(doc.index, ord, TopK)
        c == context_from(doc.chunks, I, 1)
        response == generate_answer(key, genRaises)
    IN  IF ~query_files_exist(st, s, d)
            THEN [ok |-> FALSE, log |-> "vanished", raised |-> FALSE,
                  body |-> error_stream("No such file")]
        ELSE IF ~loadOK
            THEN [ok |-> FALSE, log |-> "load", raised |-> FALSE,
                  body |-> error_stream("load")]
        ELSE IF ~embedOK
            THEN [ok |-> FALSE, log |-> "embed", raised |-> FALSE,
                  body |-> error_stream("Failed to generate query embedding")]
        ELSE IF Len(I) = 0
            THEN [ok |-> FALSE, log |-> "empty", raised |-> FALSE,
                  body |-> error_stream("No relevant content found")]
        ELSE IF ~c.ok
            THEN [ok |-> FALSE, log |-> "index", raised |-> FALSE,
                  body |-> error_stream("IndexError")]
        ELSE [ok |-> response = "stream" /\ ~streamFails,
              log |-> IF response = "str" THEN "llm" ELSE
                      IF streamFails THEN "stream" ELSE "answer",
              raised |-> FALSE,
              body |-> generate(response, nText, streamFails)]

(* ----------------------- ragai: upload, cleanup ------------------------ *)
(* ragai keeps no session.json: a session is a directory holding the pdf,  *)
(* index.faiss and chunks.json, and an entry of CONVERSATIONS.             *)
ai_ingest(fail, n, batchOK, okItems) ==
    LET chunks == chunk_text(n)
        embeddings == embed_chunks(chunks, batchOK, okItems)
    IN  IF fail \in {"save", "extract"}
            THEN [ok |-> FALSE, index |-> <<>>, chunks |-> <<>>, log |-> fail]
        ELSE IF chunks = <<>>
            THEN [ok |-> FALSE, index |-> <<>>, chunks |-> <<>>, log |-> "chunk"]
        ELSE IF embeddings = <<>>
            THEN [ok |-> FALSE, index |-> <<>>, chunks |-> <<>>, log |-> "embed"]
        ELSE IF fail = "store"
            THEN [ok |-> FALSE, index |-> <<>>, chunks |-> <<>>, log |-> "store"]
        ELSE IF fail = "persist"
            THEN [ok |-> FALSE, index |-> embeddings, chunks |-> <<>>, log |-> "persist"]
        ELSE [ok |-> TRUE, index |-> embeddings, chunks |-> chunks, log |-> "success"]

(* upload_file of ragai: the filesystem and the conversation map after it. *)
ai_upload_file(st, conv, newSid, newDoc, t, fail, n, batchOK, okItems) ==
    LET st1 == [st EXCEPT !.T[newSid] = Entry("missing", t, t)]
        conv1 == [conv EXCEPT ![newSid] = [present |-> TRUE, turns |-> <<>>]]
        p == ai_ingest(fail, n, batchOK, okItems)
    IN  IF p.ok
        THEN [ok |-> TRUE, log |-> p.log, conv |-> conv1,
              st |-> [st1 EXCEPT !.A[newDoc] =
                         [sid |-> newSid, index |-> p.index, chunks |-> p.chunks]]]
        ELSE [ok |-> FALSE, log |-> p.log,
              st |-> IF dir_exists(st1, newSid) THEN rmtree(st1, newSid) ELSE st1,
              conv |-> IF conv1[newSid].present
                       THEN [conv1 EXCEPT ![newSid] = NoConv] ELSE conv1]

(* cleanup_session of ragai (the DELETE endpoint): what rmtree raises is   *)
(* turned into HTTPException 500, before the conversation entry is         *)
(* dropped.                                                                *)
ai_cleanup_session(st, conv, s, rmOK) ==
    IF dir_exists(st, s) /\ ~rmOK
    THEN [st |-> st, conv |-> conv, ok |-> FALSE, log |-> "500"]
    ELSE [st |-> IF dir_exists(st, s) THEN rmtree(st, s) ELSE st,
          conv |-> IF s \in DOMAIN conv /\ conv[s].present
                   THEN [conv EXCEPT ![s] = NoConv] ELSE conv,
          ok |-> TRUE, log |-> "success"]

(* The document stored in the directory of session s: ragai writes one     *)
(* index.faiss and one chunks.json per directory and ignores file_id.      *)
ai_doc_of(st, s) == {d \in DOMAIN st.A : st.A[d].sid = s}

(* A turn of a conversation: {"role": ..., "content": ...}, the content as  *)
(* the increments it is the concatenation of.                              *)
Turn(role, content) == [role |-> role, content |-> content]

(* conversation.append({"role": "user", "content": request.message}) *)
user_turn == Turn("user", <<Inc("", "message")>>)

(* The turn generate() of ragai appends when the stream is over:           *)
(* full_response, or error_msg alone when iterating the response raised.   *)
assistant_turn(nText, streamFails) ==
    IF streamFails
    THEN Turn("assistant", <<Inc("\nError during response generation: ", "stream")>>)
    ELSE Turn("assistant", [i \in 1..nText |-> Text])

(* query_document of ragai up to `return StreamingResponse(...)`.  The user *)
(* turn is appended before the model is called; when generate_content      *)
(* returned, the response is handed to generate() and streaming is TRUE.   *)
ai_query_start(st, conv, sidArg, loadOK, embedOK, ord, genRaises) ==
    LET conv1 == IF sidArg \in DOMAIN conv /\ ~conv[sidArg].present
                 THEN [conv EXCEPT ![sidArg] = [present |-> TRUE, turns |-> <<>>]]
                 ELSE conv
        D == ai_doc_of(st, sidArg)
        doc == st.A[CHOOSE d \in D : TRUE]
        I == search(doc.index, ord, AiTopK)
        c == context_from(doc.chunks, I, 1)
        conv2 == [conv1 EXCEPT ![sidArg].turns = @ \o <<user_turn>>]
    IN  IF ~dir_exists(st, sidArg)
            THEN [conv |-> conv, streaming |-> FALSE, log |-> "invalid", calls |-> {},
                  body |-> error_stream("Session not found")]
        ELSE IF D = {}
            THEN [conv |-> conv1, streaming |-> FALSE, log |-> "not_found", calls |-> {},
                  body |-> error_stream("Session data not found")]
        ELSE IF ~loadOK
            THEN [conv |-> conv1, streaming |-> FALSE, log |-> "load", calls |-> {"load"},
                  body |-> error_stream("Failed to load session data")]
        ELSE IF ~embedOK
            THEN [conv |-> conv1, streaming |-> FALSE, log |-> "embed",
                  calls |-> {"load", "embed"},
                  body |-> error_stream("Failed to process query")]
        ELSE IF Len(I) = 0
            THEN [conv |-> conv1, streaming |-> FALSE, log |-> "empty",
                  calls |-> {"load", "embed", "search"},
                  body |-> error_stream("No relevant content found")]
        ELSE IF ~c.ok
            THEN [conv |-> conv1, streaming |-> FALSE, log |-> "index",
                  calls |-> {"load", "embed", "search"},
                  body |-> error_stream("IndexError")]
        ELSE IF genRaises
            THEN [conv |-> conv2, streaming |-> FALSE, log |-> "llm",
                  calls |-> {"load", "embed", "search", "llm"},
                  body |-> error_stream("generate_content")]
        ELSE [conv |-> conv2, streaming |-> TRUE, log |-> "streaming",
              calls |-> {"load", "embed", "search", "llm"}, body |-> <<>>]

(* An append that looks the list up in the map again, by session id. *)
stream_append_by_key(conv, sid, attached, nText, streamFails) ==
    [conv EXCEPT ![sid] = [present |-> TRUE,
                           turns |-> @.turns \o <<assistant_turn(nText, streamFails)>>]]

(* conversation.append(...) at the end of generate().  `conversation` is   *)
(* the list the handler read from the map; when the entry was deleted in   *)
(* the meantime (attached is FALSE) the list is in no map any more.        *)
stream_append(conv, sid, attached, nText, streamFails) ==
    IF attached
    THEN [conv EXCEPT ![sid].turns = @ \o <<assistant_turn(nText, streamFails)>>]
    ELSE conv

(* query_document of ragai with its stream relayed to the end before any   *)
(* other request is served.                                                *)
ai_query_document(st, conv, sidArg, loadOK, embedOK, ord, genRaises, nText, streamFails) ==
    LET q == ai_query_start(st, conv, sidArg, loadOK, embedOK, ord, genRaises)
    IN  IF ~q.streaming
            THEN [conv |-> q.conv, ok |-> FALSE, log |-> q.log, calls |-> q.calls,
                  body |-> q.body]
        ELSE [conv |-> stream_append(q.conv, sidArg, TRUE, nText, streamFails),
              ok |-> ~streamFails,
              log |-> IF streamFails THEN "stream" ELSE "answer",
              calls |-> q.calls,
              body |-> generate("stream", nText, streamFails)]

(* ------------------------ chunk_text, token by token ------------------- *)
(* A token is the characters it decodes to.  The vocabulary has a word,    *)
(* the full stop, a word that starts with a space (as the words of running *)
(* text do in cl100k_base) and the newline.                                *)
Vocab == {<<"a">>, <<".">>, <<" ", "a">>, <<"\n">>}

(* The iterations followed of a loop that makes no progress. *)
MaxIter == MaxTokens + 1

Max(a, b) == IF a >= b THEN a ELSE b
Min(a, b) == IF a <= b THEN a ELSE b

(* tokens[a:b] of Python for 0 <= a: b is cut at the length. *)
slice(tokens, a, b) ==
    [i \in 1..Max(0, Min(b, Len(tokens)) - a) |-> tokens[a + i]]

(* enc.decode: the characters of the tokens, one after the other. *)
RECURSIVE decode(_)
decode(tokens) ==
    IF tokens = <<>> THEN <<>> ELSE Head(tokens) \o decode(Tail(tokens))

(* str.rfind: the highest position, counted from 0, at which pat starts in *)
(* str, or -1.                                                             *)
rfind(str, pat) ==
    LET P == {i \in 0..(Len(str) - Len(pat)) :
                 \A j \in 1..Len(pat) : str[i + j] = pat[j]}
    IN  IF P = {} THEN 0 - 1 ELSE CHOOSE i \in P : \A k \in P : k <= i

(* The end of the window that starts at start: start + chunk_size, moved   *)
(* to a break point when one is found in the overlap region and the window *)
(* is not the last one.  break_point is a position in the decoded          *)
(* characters and is added to a token position.                            *)
window_end(tokens, start, chunk_size, overlap) ==
    LET end == start + chunk_size
        overlap_start == Max(start, end - overlap)
        decoded_overlap == decode(slice(tokens, overlap_start, end))
        bp1 == rfind(decoded_overlap, <<".", " ">>)
        break_point == IF bp1 = 0 - 1 THEN rfind(decoded_overlap, <<"\n">>) ELSE bp1
    IN  IF end < Len(tokens) /\ break_point # 0 - 1
        THEN overlap_start + break_point + 2
        ELSE end

(* A start pointer that jumps past the end of the window. *)
next_start_past_end(start, end, chunk_size, overlap) == end + 1

next_start(start, end, chunk_size, overlap) ==
    Max(start + chunk_size - overlap, end - overlap)

IsSpace(tok) == \A i \in 1..Len(tok) : tok[i] \in {" ", "\n"}

(* decode(tokens[start:end]).strip(): the first and the last token of the  *)
(* window that hold a character other than white space, counted from 1;    *)
(* first > last when the text is empty.                                    *)
stripped(tokens, start, end) ==
    LET W == {i \in (start + 1)..Min(end, Len(tokens)) : ~IsSpace(tokens[i])}
    IN  IF W = {} THEN [first |-> 1, last |-> 0]
        ELSE [first |-> CHOOSE i \in W : \A k \in W : i <= k,
              last |-> CHOOSE i \in W : \A k \in W : k <= i]

(* ------------------------ the last operation --------------------------- *)
(* What the most recent operation was given and what it answered.          *)
Rec(op, sid, doc, ok, log, fresh, body) ==
    [op |-> op, sid |-> sid, doc |-> doc, ok |-> ok, log |-> log,
     fresh |-> fresh, body |-> body, calls |-> {}, arg |-> NoSid,
     raised |-> FALSE]

(* ------------------------------ actions -------------------------------- *)

Init ==
    /\ app \in {"backend", "ragai"}
    /\ API_KEY \in (IF app = "backend" THEN BOOLEAN ELSE {TRUE})
    /\ now = 0
    /\ \E k \in (IF app = "backend" THEN {"none", "ok", "missing", "corrupt"}
                                    ELSE {"none", "missing"}) :
          TEMP_DIR = [s \in Sids |-> IF s = 0 /\ k # "none" THEN Entry(k, 0, 0)
                                                           ELSE NoEntry]
    /\ artifacts = [d \in DocIds |-> NoDoc]
    /\ CONVERSATIONS = [s \in Sids |-> NoConv]
    /\ nextSid = 1
    /\ nextDoc = 1
    /\ last = Rec("start", NoSid, 0, TRUE, "", FALSE, <<>>)
    /\ inflight = NoQuery
    /\ call = NoCall
    /\ periodic = NoTask
    /\ streams = <<>>
    /\ chunker = NoChunker

Tick ==
    /\ now < MaxTime
    /\ now' = now + 1
    /\ last' = Rec("tick", NoSid, 0, TRUE, "", FALSE, <<>>)
    /\ UNCHANGED <<call, periodic, streams, inflight, chunker, app, API_KEY, TEMP_DIR, artifacts, CONVERSATIONS,
                   nextSid, nextDoc>>

Create ==
    /\ app = "backend"
    /\ nextSid <= MaxSessions
    /\ LET st == create_session(Cur, nextSid, now)
       IN  /\ TEMP_DIR' = st.T
           /\ artifacts' = st.A
    /\ last' = Rec("create", nextSid, 0, TRUE, "", TRUE, <<>>)
    /\ nextSid' = nextSid + 1
    /\ UNCHANGED <<call, periodic, streams, inflight, chunker, app, API_KEY, now, CONVERSATIONS, nextDoc>>

Touch(s) ==
    /\ app = "backend"
    /\ LET u == update_session_access(Cur, s, now)
       IN  /\ TEMP_DIR' = u.st.T
           /\ artifacts' = u.st.A
           /\ last' = Rec("touch", s, 0, u.ok, "", FALSE, <<>>)
    /\ UNCHANGED <<call, periodic, streams, inflight, chunker, app, API_KEY, now, CONVERSATIONS, nextSid, nextDoc>>

Validate(s) ==
    /\ app = "backend"
    /\ LET v == is_session_valid(Cur, s, now)
       IN  /\ TEMP_DIR' = v.st.T
           /\ artifacts' = v.st.A
           /\ last' = Rec("validate", s, 0, v.ok, v.log, FALSE, <<>>)
    /\ UNCHANGED <<call, periodic, streams, inflight, chunker, app, API_KEY, now, CONVERSATIONS, nextSid, nextDoc>>

GetSessionDir(s) ==
    /\ app = "backend"
    /\ LET g == get_session_dir(Cur, s, now)
       IN  /\ TEMP_DIR' = g.st.T
           /\ artifacts' = g.st.A
           /\ last' = Rec("get_session_dir", s, 0, g.ok, g.log, FALSE, <<>>)
    /\ UNCHANGED <<call, periodic, streams, inflight, chunker, app, API_KEY, now, CONVERSATIONS, nextSid, nextDoc>>

Cleanup(s) ==
    /\ app = "backend"
    /\ \E rmOK \in (IF dir_exists(Cur, s) THEN BOOLEAN ELSE {TRUE}) :
          LET c == cleanup_endpoint(Cur, s, rmOK)
          IN  /\ TEMP_DIR' = c.st.T
              /\ artifacts' = c.st.A
              /\ last' = Rec("cleanup", s, 0, c.ok, c.log, FALSE, <<>>)
    /\ UNCHANGED <<call, periodic, streams, inflight, chunker, app, API_KEY, now, CONVERSATIONS, nextSid, nextDoc>>

Sweep ==
    /\ app = "backend"
    /\ \E ord \in iterdir(Cur) :
          LET r == cleanup_old_sessions(Cur, ord, now)
          IN  /\ TEMP_DIR' = r.st.T
              /\ artifacts' = r.st.A
              /\ last' = Rec("sweep", NoSid, 0, TRUE, r.log, FALSE, <<>>)
    /\ UNCHANGED <<call, periodic, streams, inflight, chunker, app, API_KEY, now, CONVERSATIONS, nextSid, nextDoc>>


UploadRejected ==
    /\ \E sidArg \in (IF app = "backend" THEN ArgSids \cup {NoSid} ELSE {NoSid}) :
          LET st == reject_upload(Cur, sidArg, nextSid, now)
          IN  /\ TEMP_DIR' = st.T
              /\ artifacts' = st.A
              /\ last' = [Rec("upload", NoSid, 0, FALSE, "400", FALSE, <<>>)
                             EXCEPT !.arg = sidArg]
    /\ UNCHANGED <<call, periodic, streams, inflight, chunker, app, API_KEY, now, CONVERSATIONS,
                   nextSid, nextDoc>>

Upload(sidArg, fail, n, batchOK, okItems) ==
    /\ app = "backend"
    /\ (sidArg = NoSid \/ ~is_session_valid(Cur, sidArg, now).ok) => nextSid <= MaxSessions
    /\ process_pdf(fail, n, batchOK, okItems).ok => nextDoc <= MaxDocs
    /\ LET u == upload_file(Cur, sidArg, nextSid, nextDoc, now,
                            fail, n, batchOK, okItems)
       IN  /\ TEMP_DIR' = u.st.T
           /\ artifacts' = u.st.A
           /\ nextSid' = IF u.fresh THEN nextSid + 1 ELSE nextSid
           /\ nextDoc' = IF u.ok THEN nextDoc + 1 ELSE nextDoc
           /\ last' = [Rec("upload", u.sid, IF u.ok THEN nextDoc ELSE 0,
                           u.ok, u.log, u.fresh, <<>>) EXCEPT !.arg = sidArg]
    /\ UNCHANGED <<call, periodic, streams, inflight, chunker, app, API_KEY, now, CONVERSATIONS>>

Query(sidArg, docArg, loadOK, embedOK, genRaises, nText, streamFails) ==
    /\ app = "backend"
    /\ \E ord \in Orders(IF docArg \in DocIds THEN Len(artifacts[docArg].index) ELSE 0) :
          LET q == query_document(Cur, sidArg, docArg, now, API_KEY, loadOK,
                                  embedOK, ord, genRaises, nText, streamFails)
          IN  /\ TEMP_DIR' = q.st.T
              /\ artifacts' = q.st.A
              /\ last' = [Rec("query", sidArg, docArg, q.ok, q.log, FALSE, q.body)
                             EXCEPT !.calls = q.calls]
    /\ UNCHANGED <<call, periodic, streams, inflight, chunker, app, API_KEY, now, CONVERSATIONS, nextSid, nextDoc>>

(* The behaviours of the collaborators during one ingestion.  An input    *)
(* that the code never consults is fixed: once save or extract fails the   *)
(* chunker and the embedder are not called, the per-item results are read  *)
(* only after the batch call raised, and a failing store or persist is     *)
(* shown on one document.                                                  *)
Ingestions ==
    {i \in [fail : Stages, n : 0..MaxChunks, batchOK : BOOLEAN,
            okItems : SUBSET (1..MaxChunks)] :
        /\ i.okItems \subseteq 1..i.n
        /\ i.batchOK => i.okItems = 1..i.n
        /\ i.n = 0 => i.batchOK /\ i.fail = "none"
        /\ i.fail # "none" => i.n = 1 /\ i.batchOK}

UploadAny ==
    \E sidArg \in ArgSids \cup {NoSid}, i \in Ingestions :
       Upload(sidArg, i.fail, i.n, i.batchOK, i.okItems)

(* The behaviours of the collaborators during one query: the first one    *)
(* that fails (the later ones are never called), and the number of text    *)
(* increments the model streams.  A collaborator the handler does not      *)
(* reach is not enumerated: an invalid session ends the request before     *)
(* the file id is read, a missing file before anything is loaded.          *)
QueryFaults == {"none", "load", "embed", "gen", "stream"}

QueryWith(sidArg, docArg, fault, nText) ==
    Query(sidArg, docArg, fault # "load", fault # "embed", fault = "gen",
          nText, fault = "stream")

QueryAny ==
    \E sidArg \in ArgSids :
       IF ~is_session_valid(Cur, sidArg, now).ok
       THEN QueryWith(sidArg, BogusDoc, "none", 0)
       ELSE \E docArg \in ArgDocs :
               IF ~(docArg \in DocIds /\ artifacts[docArg].sid = sidArg)
               THEN QueryWith(sidArg, docArg, "none", 0)
               ELSE \E fault \in QueryFaults, nText \in 0..MaxStream :
                       /\ fault \in {"load", "embed", "gen"} => nText = 0
                       /\ QueryWith(sidArg, docArg, fault, nText)

AiUpload(fail, n, batchOK, okItems) ==
    /\ app = "ragai"
    /\ nextSid <= MaxSessions
    /\ ai_ingest(fail, n, batchOK, okItems).ok => nextDoc <= MaxDocs
    /\ LET u == ai_upload_file(Cur, CONVERSATIONS, nextSid, nextDoc, now,
                               fail, n, batchOK, okItems)
       IN  /\ TEMP_DIR' = u.st.T
           /\ artifacts' = u.st.A
           /\ CONVERSATIONS' = u.conv
           /\ nextDoc' = IF u.ok THEN nextDoc + 1 ELSE nextDoc
           /\ last' = Rec("upload", nextSid, IF u.ok THEN nextDoc ELSE 0,
                          u.ok, u.log, TRUE, <<>>)
    /\ nextSid' = nextSid + 1
    /\ UNCHANGED <<call, periodic, streams, inflight, chunker, app, API_KEY, now>>

(* The generators in flight after the entry of session s was deleted from *)
(* the map: each still holds the list it was given.                        *)
detach(ss, s) ==
    [i \in 1..Len(ss) |-> IF ss[i].sid = s THEN [ss[i] EXCEPT !.attached = FALSE]
                                            ELSE ss[i]]

AiCleanup(s) ==
    /\ app = "ragai"
    /\ \E rmOK \in (IF dir_exists(Cur, s) THEN BOOLEAN ELSE {TRUE}) :
          LET c == ai_cleanup_session(Cur, CONVERSATIONS, s, rmOK)
          IN  /\ TEMP_DIR' = c.st.T
              /\ artifacts' = c.st.A
              /\ CONVERSATIONS' = c.conv
              /\ streams' = IF c.ok THEN detach(streams, s) ELSE streams
              /\ last' = Rec("cleanup", s, 0, c.ok, c.log, FALSE, <<>>)
    /\ UNCHANGED <<call, periodic, inflight, chunker, app, API_KEY, now, nextSid, nextDoc>>

AiUploadAny == \E i \in Ingestions : AiUpload(i.fail, i.n, i.batchOK, i.okItems)

AiQuery(sidArg, loadOK, embedOK, genRaises, nText, streamFails) ==
    /\ app = "ragai"
    /\ LET D == ai_doc_of(Cur, sidArg)
           n == IF D = {} THEN 0 ELSE Len(artifacts[CHOOSE d \in D : TRUE].index)
       IN  \E ord \in Orders(n) :
              LET q == ai_query_document(Cur, CONVERSATIONS, sidArg, loadOK, embedOK,
                                         ord, genRaises, nText, streamFails)
              IN  /\ \A s \in Sids : Len(q.conv[s].turns) <= MaxTurns
                  /\ CONVERSATIONS' = q.conv
                  /\ last' = [Rec("query", sidArg, 0, q.ok, q.log, FALSE, q.body)
                                 EXCEPT !.calls = q.calls]
    /\ UNCHANGED <<call, periodic, streams, inflight, chunker, app, API_KEY, now, TEMP_DIR, artifacts,
                   nextSid, nextDoc>>

AiQueryAny ==
    \E sidArg \in ArgSids :
       IF ai_doc_of(Cur, sidArg) = {}
       THEN AiQuery(sidArg, TRUE, TRUE, FALSE, 0, FALSE)
       ELSE \E fault \in QueryFaults, nText \in 0..MaxStream :
               /\ fault \in {"load", "embed", "gen"} => nText = 0
               /\ AiQuery(sidArg, fault # "load", fault # "embed", fault = "gen",
                          nText, fault = "stream")

(* chunk_text(text, chunk_size, overlap) on its own: the call, one action  *)
(* per iteration of the while loop, and the return.                        *)
TokenSeqs == UNION {[1..n -> Vocab] : n \in 0..MaxTokens}

ChunkInit ==
    /\ app = "backend"
    /\ API_KEY = TRUE
    /\ now = 0
    /\ TEMP_DIR = [s \in Sids |-> NoEntry]
    /\ artifacts = [d \in DocIds |-> NoDoc]
    /\ CONVERSATIONS = [s \in Sids |-> NoConv]
    /\ nextSid = 1
    /\ nextDoc = 1
    /\ last = Rec("start", NoSid, 0, TRUE, "", FALSE, <<>>)
    /\ inflight = NoQuery
    /\ call = NoCall
    /\ periodic = NoTask
    /\ streams = <<>>
    /\ \E tokens \in TokenSeqs, chunk_size \in 1..MaxChunkSize :
          \E overlap \in 0..chunk_size :
             chunker = [pc |-> "call", tokens |-> tokens, chunk_size |-> chunk_size,
                        overlap |-> overlap, start |-> 0, windows |-> <<>>,
                        chunks |-> <<>>]

(* `if not text: return []`, else tokens = enc.encode(text); start = 0 *)
ChunkCall ==
    /\ chunker.pc = "call"
    /\ chunker' = [chunker EXCEPT !.pc = IF chunker.tokens = <<>> THEN "done"
                                                                  ELSE "loop"]
    /\ last' = Rec("chunk_call", NoSid, 0, TRUE, "", FALSE, <<>>)
    /\ UNCHANGED <<call, periodic, streams, inflight, app, API_KEY, now, TEMP_DIR, artifacts, CONVERSATIONS,
                   nextSid, nextDoc>>

(* One iteration of `while start < len(tokens)`. *)
ChunkStep ==
    /\ chunker.pc = "loop"
    /\ chunker.start < Len(chunker.tokens)
    /\ Len(chunker.windows) < MaxIter
    /\ LET end == window_end(chunker.tokens, chunker.start, chunker.chunk_size,
                             chunker.overlap)
           chunk == stripped(chunker.tokens, chunker.start, end)
       IN  chunker' = [chunker EXCEPT
              !.windows = @ \o <<[start |-> chunker.start, end |-> end]>>,
              !.chunks = IF chunk.first <= chunk.last THEN @ \o <<chunk>> ELSE @,
              !.start = next_start(chunker.start, end, chunker.chunk_size,
                                   chunker.overlap)]
    /\ last' = Rec("chunk_step", NoSid, 0, TRUE, "", FALSE, <<>>)
    /\ UNCHANGED <<call, periodic, streams, inflight, app, API_KEY, now, TEMP_DIR, artifacts, CONVERSATIONS,
                   nextSid, nextDoc>>

(* `return chunks` *)
ChunkReturn ==
    /\ chunker.pc = "loop"
    /\ chunker.start >= Len(chunker.tokens)
    /\ chunker' = [chunker EXCEPT !.pc = "done"]
    /\ last' = Rec("chunk_return", NoSid, 0, TRUE, "", FALSE, <<>>)
    /\ UNCHANGED <<call, periodic, streams, inflight, app, API_KEY, now, TEMP_DIR, artifacts, CONVERSATIONS,
                   nextSid, nextDoc>>

ChunkNext == ChunkCall \/ ChunkStep \/ ChunkReturn

SpecChunk == ChunkInit /\ [][ChunkNext]_vars

(* A query taken one statement at a time. *)
QBegin(sidArg, docArg) ==
    /\ app = "backend"
    /\ inflight.pc = "idle"
    /\ LET v == is_session_valid(Cur, sidArg, now)
       IN  /\ TEMP_DIR' = v.st.T
           /\ artifacts' = v.st.A
           /\ IF v.ok
              THEN /\ inflight' = [pc |-> "validated", sid |-> sidArg, doc |-> docArg]
                   /\ last' = Rec("query_step", sidArg, docArg, TRUE, "validated",
                                  FALSE, <<>>)
              ELSE /\ inflight' = NoQuery
                   /\ last' = Rec("query", sidArg, docArg, FALSE, "invalid", FALSE,
                                  error_stream("Session expired or invalid"))
    /\ UNCHANGED <<call, periodic, streams, chunker, app, API_KEY, now, CONVERSATIONS, nextSid, nextDoc>>

QTouch ==
    /\ inflight.pc = "validated"
    /\ LET u == update_session_access(Cur, inflight.sid, now)
       IN  /\ TEMP_DIR' = u.st.T
           /\ artifacts' = u.st.A
    /\ inflight' = [inflight EXCEPT !.pc = "touched"]
    /\ last' = Rec("query_step", inflight.sid, inflight.doc, TRUE, "touched",
                   FALSE, <<>>)
    /\ UNCHANGED <<call, periodic, streams, chunker, app, API_KEY, now, CONVERSATIONS, nextSid, nextDoc>>

QExists ==
    /\ inflight.pc = "touched"
    /\ IF query_files_exist(Cur, inflight.sid, inflight.doc)
       THEN /\ inflight' = [inflight EXCEPT !.pc = "checked"]
            /\ last' = Rec("query_step", inflight.sid, inflight.doc, TRUE, "checked",
                           FALSE, <<>>)
       ELSE /\ inflight' = NoQuery
            /\ last' = Rec("query", inflight.sid, inflight.doc, FALSE, "not_found",
                           FALSE,
                           error_stream("File not found or processing incomplete"))
    /\ UNCHANGED <<call, periodic, streams, chunker, app, API_KEY, now, TEMP_DIR, artifacts, CONVERSATIONS,
                   nextSid, nextDoc>>

QLoad(loadOK, embedOK, genRaises, nText, streamFails) ==
    /\ inflight.pc = "checked"
    /\ \E ord \in Orders(IF inflight.doc \in DocIds
                          THEN Len(artifacts[inflight.doc].index) ELSE 0) :
          LET q == query_from_load(Cur, inflight.sid, inflight.doc, API_KEY, loadOK,
                                   embedOK, ord, genRaises, nText, streamFails)
          IN  last' = [Rec("query", inflight.sid, inflight.doc, q.ok, q.log, FALSE,
                           q.body) EXCEPT !.raised = q.raised]
    /\ inflight' = NoQuery
    /\ UNCHANGED <<call, periodic, streams, chunker, app, API_KEY, now, TEMP_DIR, artifacts, CONVERSATIONS,
                   nextSid, nextDoc>>

QLoadAny ==
    IF inflight.pc = "checked" /\ ~query_files_exist(Cur, inflight.sid, inflight.doc)
    THEN QLoad(TRUE, TRUE, FALSE, 0, FALSE)
    ELSE \E fault \in QueryFaults, nText \in 0..MaxStream :
            /\ fault \in {"load", "embed", "gen"} => nText = 0
            /\ QLoad(fault # "load", fault # "embed", fault = "gen", nText,
                     fault = "stream")

(* The backend with its queries taken one statement at a time, so that a   *)
(* delete or a sweep can fall between two statements of a query.  One      *)
(* query is followed at a time.                                            *)
RaceNext ==
    \/ Tick
    \/ \E sidArg \in ArgSids \cup {NoSid}, i \in Ingestions :
          i.fail = "none" /\ Upload(sidArg, i.fail, i.n, i.batchOK, i.okItems)
    \/ \E sidArg \in ArgSids, docArg \in ArgDocs : QBegin(sidArg, docArg)
    \/ QTouch
    \/ QExists
    \/ QLoadAny
    \/ \E s \in ArgSids : Cleanup(s)
    \/ Sweep

RaceInit == Init /\ app = "backend"

SpecRace == RaceInit /\ [][RaceNext]_vars

(* The SessionManager on its own: every public method is an operation. *)
RegistryNext ==
    \/ Tick
    \/ Create
    \/ \E s \in ArgSids : Touch(s)
    \/ \E s \in ArgSids : Validate(s)
    \/ \E s \in ArgSids : GetSessionDir(s)
    \/ \E s \in ArgSids : Cleanup(s)
    \/ Sweep

RegistryInit == Init /\ app = "backend"

SpecRegistry == RegistryInit /\ [][RegistryNext]_vars

(* The service: the endpoints and the background sweep. *)
Next ==
    \/ Tick
    \/ UploadRejected
    \/ UploadAny
    \/ QueryAny
    \/ \E s \in ArgSids : Cleanup(s)
    \/ Sweep
    \/ AiUploadAny
    \/ AiQueryAny
    \/ \E s \in ArgSids : AiCleanup(s)

Spec == Init /\ [][Next]_vars


(* ----------------------- pure functions on their own ------------------- *)
(* The state in which no request was served and no task runs: what the     *)
(* specifications of a single function start from.                         *)
Unstarted ==
    /\ API_KEY = TRUE
    /\ now = 0
    /\ TEMP_DIR = [s \in Sids |-> NoEntry]
    /\ artifacts = [d \in DocIds |-> NoDoc]
    /\ CONVERSATIONS = [s \in Sids |-> NoConv]
    /\ nextSid = 1
    /\ nextDoc = 1
    /\ last = Rec("start", NoSid, 0, TRUE, "", FALSE, <<>>)
    /\ inflight = NoQuery
    /\ chunker = NoChunker
    /\ periodic = NoTask
    /\ streams = <<>>

(* embed_chunks(chunks) on its own.  The texts are 1..MaxChunks, a list    *)
(* may repeat a text; okItems are the texts embed_text can encode, read    *)
(* only once the batch call raised.                                        *)
ChunkLists == UNION {[1..n -> 1..MaxChunks] : n \in 0..MaxBatch}

EmbedInit ==
    /\ Unstarted
    /\ app = "backend"
    /\ \E chunks \in ChunkLists, batchOK \in BOOLEAN, okItems \in SUBSET (1..MaxChunks) :
          /\ batchOK => okItems = 1..MaxChunks
          /\ call = [fn |-> "embed_chunks", pc |-> "call", chunks |-> chunks,
                     batchOK |-> batchOK, okItems |-> okItems, result |-> <<>>]

EmbedChunks ==
    /\ call.fn = "embed_chunks"
    /\ call.pc = "call"
    /\ call' = [call EXCEPT !.pc = "done",
                   !.result = embed_chunks(call.chunks, call.batchOK, call.okItems)]
    /\ last' = Rec("embed_chunks", NoSid, 0, TRUE, "", FALSE, <<>>)
    /\ UNCHANGED <<periodic, streams, inflight, chunker, app, API_KEY, now, TEMP_DIR,
                   artifacts, CONVERSATIONS, nextSid, nextDoc>>

SpecEmbed == EmbedInit /\ [][EmbedChunks]_vars

(* get_enhanced_query(original_query, conversation_history) as             *)
(* query_document calls it: before the user turn of the request is         *)
(* appended.  A turn is its role and whether its content is longer than    *)
(* 50 characters; the first turn of a history is always a user turn.       *)
TurnKinds == [role : {"user", "assistant"}, substantial : BOOLEAN]
Histories ==
    {h \in UNION {[1..n -> TurnKinds] : n \in 0..MaxHistory} :
        h # <<>> => h[1].role = "user"}

(* The query embedded: the original one, the rewrite around the turn at    *)
(* position topic, or the template that quotes the last four turns.        *)
get_enhanced_query(generic, conversation_history) ==
    LET n == Len(conversation_history)
        found == {i \in 1..(n - 1) :
                     /\ conversation_history[i].role = "assistant"
                     /\ conversation_history[i].substantial}
    IN  IF conversation_history = <<>>
            THEN [kind |-> "original", topic |-> 0]
        ELSE IF generic /\ found # {}
            THEN [kind |-> "topic", topic |-> CHOOSE i \in found : \A k \in found : k <= i]
        ELSE [kind |-> "context", topic |-> 0]

EnhanceInit ==
    /\ Unstarted
    /\ app = "ragai"
    /\ \E h \in Histories, generic \in BOOLEAN :
          call = [fn |-> "get_enhanced_query", pc |-> "call", history |-> h,
                  generic |-> generic, result |-> [kind |-> "none", topic |-> 0]]

EnhanceQuery ==
    /\ call.fn = "get_enhanced_query"
    /\ call.pc = "call"
    /\ call' = [call EXCEPT !.pc = "done",
                   !.result = get_enhanced_query(call.generic, call.history)]
    /\ last' = Rec("get_enhanced_query", NoSid, 0, TRUE, "", FALSE, <<>>)
    /\ UNCHANGED <<periodic, streams, inflight, chunker, app, API_KEY, now, TEMP_DIR,
                   artifacts, CONVERSATIONS, nextSid, nextDoc>>

SpecEnhance == EnhanceInit /\ [][EnhanceQuery]_vars

(* ------------------------- periodic_cleanup ---------------------------- *)
(* The task startup_event creates: `while True`, a pass of                 *)
(* cleanup_old_sessions, then asyncio.sleep(3600).  cleanup_old_sessions   *)
(* catches what a pass raises, so the except branch of the loop (sleep     *)
(* 60) continues the loop the same way.  passes counts the passes made,    *)
(* up to MaxPasses.                                                        *)

(* A loop that a failed pass ends. *)
after_pass_stops_on_error(log) == IF log = "error" THEN "stopped" ELSE "sleep"

(* Where the task is after a pass that logged `log`. *)
after_pass(log) == "sleep"

PeriodicPass ==
    /\ periodic.pc = "run"
    /\ \E ord \in iterdir(Cur) :
          LET r == cleanup_old_sessions(Cur, ord, now)
          IN  /\ TEMP_DIR' = r.st.T
              /\ artifacts' = r.st.A
              /\ last' = Rec("sweep", NoSid, 0, TRUE, r.log, FALSE, <<>>)
              /\ periodic' = [pc |-> after_pass(r.log),
                              passes |-> Min(periodic.passes + 1, MaxPasses)]
    /\ UNCHANGED <<call, streams, inflight, chunker, app, API_KEY, now, CONVERSATIONS,
                   nextSid, nextDoc>>

(* asyncio.sleep returns. *)
PeriodicWake ==
    /\ periodic.pc = "sleep"
    /\ periodic' = [periodic EXCEPT !.pc = "run"]
    /\ last' = Rec("wake", NoSid, 0, TRUE, "", FALSE, <<>>)
    /\ UNCHANGED <<call, streams, inflight, chunker, app, API_KEY, now, TEMP_DIR,
                   artifacts, CONVERSATIONS, nextSid, nextDoc>>

(* startup_event has created the task; its first pass is due. *)
LoopInit ==
    /\ app = "backend"
    /\ API_KEY \in BOOLEAN
    /\ now = 0
    /\ \E k \in {"none", "ok", "missing", "corrupt"} :
          TEMP_DIR = [s \in Sids |-> IF s = 0 /\ k # "none" THEN Entry(k, 0, 0)
                                                           ELSE NoEntry]
    /\ artifacts = [d \in DocIds |-> NoDoc]
    /\ CONVERSATIONS = [s \in Sids |-> NoConv]
    /\ nextSid = 1
    /\ nextDoc = 1
    /\ last = Rec("start", NoSid, 0, TRUE, "", FALSE, <<>>)
    /\ inflight = NoQuery
    /\ chunker = NoChunker
    /\ call = NoCall
    /\ streams = <<>>
    /\ periodic = [pc |-> "run", passes |-> 0]

LoopNext ==
    \/ Tick
    \/ Create
    \/ \E s \in ArgSids : Touch(s)
    \/ PeriodicPass
    \/ PeriodicWake

(* The event loop resumes a task whose sleep is over and runs a task that  *)
(* is ready: the handlers never block it for ever.                         *)
SpecLoop ==
    /\ LoopInit
    /\ [][LoopNext]_vars
    /\ WF_vars(PeriodicPass)
    /\ WF_vars(PeriodicWake)

(* -------------------- ragai: queries that overlap ---------------------- *)
(* The handler returns the StreamingResponse and generate() runs while     *)
(* other requests are served: one action up to the return, one for the     *)
(* end of the stream.  streams lists the generators in flight, each with   *)
(* its session and whether the list it holds is still the map's.           *)
AiStart(sidArg, loadOK, embedOK, genRaises) ==
    /\ app = "ragai"
    /\ Len(streams) < MaxOverlap
    /\ sidArg \in Sids => Len(CONVERSATIONS[sidArg].turns) <= MaxTurns
    /\ LET D == ai_doc_of(Cur, sidArg)
           n == IF D = {} THEN 0 ELSE Len(artifacts[CHOOSE d \in D : TRUE].index)
       IN  \E ord \in Orders(n) :
              LET q == ai_query_start(Cur, CONVERSATIONS, sidArg, loadOK, embedOK,
                                      ord, genRaises)
              IN  /\ CONVERSATIONS' = q.conv
                  /\ streams' = IF q.streaming
                                THEN Append(streams, [sid |-> sidArg, attached |-> TRUE])
                                ELSE streams
                  /\ last' = [Rec("query", sidArg, 0, q.streaming, q.log, FALSE, q.body)
                                 EXCEPT !.calls = q.calls]
    /\ UNCHANGED <<call, periodic, inflight, chunker, app, API_KEY, now, TEMP_DIR,
                   artifacts, nextSid, nextDoc>>

AiStartAny ==
    \E sidArg \in ArgSids :
       IF ai_doc_of(Cur, sidArg) = {}
       THEN AiStart(sidArg, TRUE, TRUE, FALSE)
       ELSE \E fault \in QueryFaults \ {"stream"} :
               AiStart(sidArg, fault # "load", fault # "embed", fault = "gen")

(* generate() of the i-th generator in flight runs to its end. *)
AiStreamEnd(i, nText, streamFails) ==
    /\ app = "ragai"
    /\ i \in 1..Len(streams)
    /\ CONVERSATIONS' = stream_append(CONVERSATIONS, streams[i].sid,
                                      streams[i].attached, nText, streamFails)
    /\ streams' = [k \in 1..(Len(streams) - 1) |->
                      IF k < i THEN streams[k] ELSE streams[k + 1]]
    /\ last' = [Rec("stream_end", streams[i].sid, 0, ~streamFails,
                    IF streamFails THEN "stream" ELSE "answer", FALSE,
                    generate("stream", nText, streamFails))
                   EXCEPT !.calls = {"append"}]
    /\ UNCHANGED <<call, periodic, inflight, chunker, app, API_KEY, now, TEMP_DIR,
                   artifacts, nextSid, nextDoc>>

AiStreamEndAny ==
    \E i \in 1..Len(streams), nText \in 0..MaxStream, streamFails \in BOOLEAN :
       AiStreamEnd(i, nText, streamFails)

StreamInit == Init /\ app = "ragai"

StreamNext ==
    \/ AiUploadAny
    \/ AiStartAny
    \/ AiStreamEndAny
    \/ \E s \in ArgSids : AiCleanup(s)

SpecStream == StreamInit /\ [][StreamNext]_vars

(* ======================================================================= *)
(* Properties.  The yardsticks below are stated on the files themselves,   *)
(* not through the operators that model the code.                          *)
(* ======================================================================= *)
Present(s) == TEMP_DIR[s].kind # "none"
Idle(s) == now - TEMP_DIR[s].last_access
(* A session with a readable session.json whose idle time is within, or    *)
(* past, the threshold.                                                    *)
Live(s) == TEMP_DIR[s].kind = "ok" /\ Idle(s) <= IdleThreshold
IdleExceeded(s) == TEMP_DIR[s].kind = "ok" /\ Idle(s) > IdleThreshold
CurNext == [T |-> TEMP_DIR', A |-> artifacts']
DocsOf(s) == {d \in DocIds : artifacts[d].sid = s}
FailedStages == {"save", "extract", "chunk", "embed", "store", "persist"}

(* A message that contains the word "session", in any case. *)
MentionsSession(msg) ==
    msg \in {"Session expired or invalid", "Session not found",
             "Session data not found", "Failed to load session data"}
Unknown(s) == s \notin Sids \/ ~Present(s)
Expired(s) == s \in Sids /\ Present(s) /\ Idle(s) > IdleThreshold
NothingCreated ==
    /\ \A s \in Sids : Present(s)' => Present(s)
    /\ \A d \in DocIds : artifacts'[d] \in {artifacts[d], NoDoc}

C2_ValidWhileFresh ==
    [][app = "backend" =>
          /\ \A s \in 1..MaxSessions :
                (/\ Live(s)
                 /\ ~(last'.op = "cleanup" /\ last'.sid = s)
                 /\ now' - TEMP_DIR[s].last_access <= IdleThreshold)
                   => is_session_valid(CurNext, s, now').ok
          /\ (last'.op = "upload" /\ last'.ok)
                => is_session_valid(CurNext, last'.sid, now').ok]_vars

(* C3: once the idle time of a session has exceeded the threshold no       *)
(* operation succeeds on it, and it never validates again.                 *)
C3_ExpiredIsTerminal ==
    [][\A s \in Sids :
          IdleExceeded(s)
             => /\ ~is_session_valid(CurNext, s, now').ok
                /\ ~(last'.sid = s /\ last'.ok
                     /\ last'.op \in {"touch", "get_session_dir", "validate",
                                      "upload", "query"})]_vars

(* C4: a step in which the upload or the query pipeline judges a session   *)
(* valid ends with that session's last_access equal to the current time;   *)
(* no other task runs between the judgement and the refresh.               *)
C4_ValidateThenTouch ==
    [][\A s \in Sids :
          (app = "backend" /\ last'.op \in {"upload", "query"}
           /\ last'.sid = s /\ Live(s))
             => /\ Present(s)' => TEMP_DIR'[s].last_access = now'
                /\ last'.op = "query" => TEMP_DIR'[s].kind = "ok"]_vars

(* A query was served on a session older than the current hour, and the    *)
(* session now carries the current time.                                   *)
C4_Witness ==
    /\ last.op = "query" /\ last.log = "answer"
    /\ last.sid \in Sids
    /\ TEMP_DIR[last.sid].kind = "ok"
    /\ TEMP_DIR[last.sid].created_at < now
    /\ TEMP_DIR[last.sid].last_access = now

(* C5: a sweep pass leaves alone every session whose last_access is within *)
(* the idle threshold when the pass looks at it, with its documents.       *)
C5_SweepSparesLive ==
    [][last'.op = "sweep" =>
          \A s \in Sids :
             Live(s) => /\ TEMP_DIR'[s] = TEMP_DIR[s]
                        /\ \A d \in DocIds :
                              artifacts[d].sid = s => artifacts'[d] = artifacts[d]]_vars

(* A sweep pass has run over a session created in this run whose idle time *)
(* is exactly the threshold, and the session and its document are there.   *)
C5_Witness ==
    /\ last.op = "sweep"
    /\ \E s \in 1..MaxSessions :
          /\ TEMP_DIR[s].kind = "ok"
          /\ Idle(s) = IdleThreshold
          /\ DocsOf(s) # {}

(* C6: when a sweep pass has finished, no session remains whose idle time  *)
(* exceeded the threshold or whose session.json was missing or corrupt.    *)
C6_SweepRemovesAllStale ==
    [][last'.op = "sweep" =>
          \A s \in Sids :
             (Present(s) /\ (TEMP_DIR[s].kind # "ok" \/ Idle(s) > IdleThreshold))
                => TEMP_DIR'[s].kind = "none"]_vars

(* C7: a failed upload into a session that an earlier upload of this run  *)
(* created, and that was still valid, leaves that session in place: its    *)
(* directory, its session.json and the artifacts of its documents.         *)
C7_FailedUploadKeepsSession ==
    [][\A s \in 1..MaxSessions :
          (app = "backend" /\ Live(s) /\ last'.op = "upload" /\ last'.sid = s
           /\ last'.log \in FailedStages)
             => /\ TEMP_DIR'[s].kind = "ok"
                /\ \A d \in DocIds :
                      artifacts[d].sid = s => artifacts'[d] = artifacts[d]]_vars

C9_RowsMatchChunks ==
    \A d \in DocIds :
       artifacts[d].sid # NoSid
          => /\ Len(artifacts[d].index) = Len(artifacts[d].chunks)
             /\ \A i \in 1..Len(artifacts[d].index) :
                   artifacts[d].index[i] = encode(artifacts[d].chunks[i])

(* C10: the body of a query that failed is the single increment            *)
(* "Error: <message>".                                                     *)
C10_FailureIsOneErrorLine ==
    (last.op = "query" /\ ~last.ok)
       => /\ Len(last.body) = 1
          /\ last.body[1].pre = "Error: "

(* C11: a query on a session id that is unknown, or whose idle time has     *)
(* exceeded the threshold, answers one error increment that mentions the   *)
(* session, calls neither the loader, the embedder, the search nor the     *)
(* LLM, and creates nothing.                                               *)
C11_InvalidSessionQuery ==
    [][(last'.op = "query" /\ (Unknown(last'.sid) \/ Expired(last'.sid)))
          => /\ Len(last'.body) = 1
             /\ last'.body[1].pre = "Error: "
             /\ MentionsSession(last'.body[1].msg)
             /\ last'.calls = {}
             /\ NothingCreated]_vars

(* The body of a stream that is not empty and holds no error increment. *)
CleanAnswer(body) ==
    /\ body # <<>>
    /\ \A i \in 1..Len(body) : body[i] = Text

(* What a query on (s, d) answers in the next state when the loader, the   *)
(* embedder and the LLM all succeed, whatever the row order of the search  *)
(* and however many increments the LLM streams.                            *)
AnswersNext(s, d) ==
    \A ord \in Orders(Len(artifacts'[d].index)), nText \in 1..MaxStream :
       CleanAnswer(
          IF app = "backend"
          THEN query_document(CurNext, s, d, now', API_KEY, TRUE, TRUE, ord,
                              FALSE, nText, FALSE).body
          ELSE ai_query_document(CurNext, CONVERSATIONS', s, TRUE, TRUE, ord,
                                 FALSE, nText, FALSE).body)

(* C12: a query on the pair returned by an upload that succeeded, made     *)
(* within the idle threshold of the session's last use and with no delete  *)
(* of the session in between, streams an answer that is not empty and      *)
(* holds no error increment, whatever the number of chunks.                *)
C12_UploadThenQueryAnswers ==
    [][\A s \in 1..MaxSessions, d \in DocIds :
          API_KEY =>
             /\ (last'.op = "upload" /\ last'.ok /\ last'.sid = s /\ last'.doc = d)
                   => AnswersNext(s, d)
             /\ (/\ artifacts[d].sid = s
                 /\ app = "backend" => Live(s)
                 /\ ~(last'.op = "cleanup" /\ last'.sid = s)
                 /\ now' - TEMP_DIR[s].last_access <= IdleThreshold)
                   => AnswersNext(s, d)]_vars

(* C13: an upload rejected for its file name leaves the session            *)
(* directories, their files and the conversation entries as they were,     *)
(* with or without a session id in the request.                            *)
C13_RejectedUploadChangesNothing ==
    [][(last'.op = "upload" /\ last'.log = "400")
          => /\ ~last'.ok
             /\ TEMP_DIR' = TEMP_DIR
             /\ artifacts' = artifacts
             /\ CONVERSATIONS' = CONVERSATIONS]_vars

(* A non-PDF upload that named an expired session has been rejected, and   *)
(* that session is still as it was.                                        *)
C13_Witness ==
    /\ last.op = "upload" /\ last.log = "400"
    /\ last.arg \in 1..MaxSessions
    /\ IdleExceeded(last.arg)

(* What one more delete of s, with rmtree working, leaves of a state. *)
DeleteAgain(st, conv, s) ==
    IF app = "backend"
    THEN [st |-> cleanup_endpoint(st, s, TRUE).st, conv |-> conv]
    ELSE [st |-> ai_cleanup_session(st, conv, s, TRUE).st,
          conv |-> ai_cleanup_session(st, conv, s, TRUE).conv]

(* C14: the DELETE endpoint always answers success; a delete of a session  *)
(* that does not exist changes nothing; and a second delete leaves what    *)
(* the first one left.                                                     *)
C14_DeleteIdempotent ==
    [][last'.op = "cleanup" =>
          /\ last'.ok
          /\ (Unknown(last'.sid)
              /\ (last'.sid \in Sids => ~CONVERSATIONS[last'.sid].present))
                => /\ TEMP_DIR' = TEMP_DIR
                   /\ artifacts' = artifacts
                   /\ CONVERSATIONS' = CONVERSATIONS
          /\ LET once == DeleteAgain(Cur, CONVERSATIONS, last'.sid)
             IN  DeleteAgain(once.st, once.conv, last'.sid) = once]_vars

(* C15: a query that is under way when its session is deleted or swept     *)
(* ends with one streamed error line or with an answer; no exception       *)
(* leaves the handler.                                                     *)
C15_VanishedFilesAreNotFound ==
    [][(last'.op = "query" /\ inflight.pc # "idle")
          => /\ ~last'.raised
             /\ ~query_files_exist(Cur, inflight.sid, inflight.doc)
                   => /\ Len(last'.body) = 1
                      /\ last'.body[1].pre = "Error: "
                      /\ ~last'.ok]_vars

(* The index and the chunks of a query were there at the exists() tests    *)
(* and gone at load_index_and_chunks, and the query has ended.             *)
C15_Witness ==
    /\ last.op = "query" /\ last.log = "vanished"
    /\ last.sid \in 1..MaxSessions
    /\ ~Present(last.sid)
    /\ inflight = NoQuery

(* The document a query on (last'.sid, last'.doc) reads, when its index    *)
(* and its chunk list do not have the same length.                         *)
QueriedMismatch ==
    \E d \in DocIds :
       /\ artifacts[d].sid = last'.sid
       /\ app = "backend" => d = last'.doc
       /\ Len(artifacts[d].index) # Len(artifacts[d].chunks)

(* C16: a query that cannot read the index or the chunks of its document,  *)
(* or that finds them of different lengths, answers one error line, calls  *)
(* no LLM, and the session is deleted.                                     *)
C16_CorruptArtifactDeletesSession ==
    [][(/\ last'.op = "query"
        /\ last'.log \notin {"invalid", "not_found"}
        /\ (last'.log = "load" \/ QueriedMismatch))
          => /\ ~last'.ok
             /\ Len(last'.body) = 1
             /\ last'.body[1].pre = "Error: "
             /\ "llm" \notin last'.calls
             /\ last'.sid \in Sids => TEMP_DIR'[last'.sid].kind = "none"]_vars

(* The chunk texts at rows I of chunks, in the order of I; rows are        *)
(* counted from 0.                                                         *)
ChunksAt(chunks, I) == [j \in 1..Len(I) |-> chunks[I[j] + 1]]

(* C17: for the document of a query that reached the search, the rows      *)
(* returned are at most k, each one a row of the index, none twice, all n  *)
(* of them when the index holds n < k rows; and the context is the chunks  *)
(* at those rows in that order.                                            *)
C17_SearchReturnsValidRows ==
    \A d \in DocIds :
       (/\ last.op = "query" /\ "search" \in last.calls
        /\ artifacts[d].sid = last.sid
        /\ app = "backend" => d = last.doc)
          => \A ord \in Orders(Len(artifacts[d].index)) :
                LET n == Len(artifacts[d].index)
                    k == IF app = "backend" THEN TopK ELSE AiTopK
                    I == search(artifacts[d].index, ord, k)
                IN  /\ Len(I) <= k
                    /\ \A j \in 1..Len(I) : I[j] >= 0 /\ I[j] < n
                    /\ \A i, j \in 1..Len(I) : i # j => I[i] # I[j]
                    /\ n < k => Len(I) = n
                    /\ context_from(artifacts[d].chunks, I, 1).ok
                    /\ context_from(artifacts[d].chunks, I, 1).ctx
                          = ChunksAt(artifacts[d].chunks, I)

(* C18: with overlap < chunk_size, every segment chunk_text returns spans  *)
(* at most chunk_size tokens of the input.                                 *)
C18_SegmentWithinChunkSize ==
    chunker.overlap < chunker.chunk_size
       => \A i \in 1..Len(chunker.chunks) :
             chunker.chunks[i].last - chunker.chunks[i].first + 1
                <= chunker.chunk_size

Encodable(c) == call.batchOK \/ c \in call.okItems
EmbedDone == call.fn = "embed_chunks" /\ call.pc = "done"

(* C21: embed_chunks returns the vectors of the items that did not fail,   *)
(* in the order of the input: one per input when no item fails, and after  *)
(* a failed batch call only the items that fail on their own are dropped;  *)
(* it returns None exactly when the input is empty or every item fails.    *)
C21_EmbedChunksDropsOnlyFailures ==
    EmbedDone =>
        LET kept == SelectSeq(call.chunks, Encodable)
        IN  /\ Len(call.result) = Len(kept)
            /\ \A i \in 1..Len(kept) : call.result[i] = [vec |-> kept[i]]
            /\ (\A i \in 1..Len(call.chunks) : Encodable(call.chunks[i]))
                  => Len(call.result) = Len(call.chunks)
            /\ (call.result = <<>>) <=>
                  (\A i \in 1..Len(call.chunks) : ~Encodable(call.chunks[i]))

C21_Witness ==
    /\ EmbedDone
    /\ ~call.batchOK
    /\ Len(call.result) = 2
    /\ Len(call.chunks) = 3
    /\ ~Encodable(call.chunks[2])


(* The substantial assistant turns of the history the call was given. *)
SubstantialTurns ==
    {i \in 1..Len(call.history) :
        call.history[i].role = "assistant" /\ call.history[i].substantial}

(* C22: a generic follow-up is rewritten around the most recent substantial *)
(* assistant turn of the history as it stands when the query arrives.      *)
C22_FollowUpUsesLatestAssistantTurn ==
    (/\ call.fn = "get_enhanced_query" /\ call.pc = "done"
     /\ call.generic
     /\ SubstantialTurns # {})
        => /\ call.result.kind = "topic"
           /\ call.result.topic \in SubstantialTurns
           /\ \A i \in SubstantialTurns : i <= call.result.topic


(* The turns an operation appended to the history of session s. *)
Appended(s) ==
    {i \in 1..Len(CONVERSATIONS'[s].turns) : i > Len(CONVERSATIONS[s].turns)}

(* C23: a query appends an assistant turn only when the generation stream  *)
(* ended cleanly, and its content is the concatenation of the increments   *)
(* relayed; a stream that ends with an error appends no assistant turn.    *)
C23_AssistantTurnOnlyForCleanStream ==
    [][(app = "ragai" /\ last'.op = "query") =>
          \A s \in Sids : \A i \in Appended(s) :
             CONVERSATIONS'[s].turns[i].role = "assistant" =>
                /\ last'.log = "answer"
                /\ CONVERSATIONS'[s].turns[i].content = last'.body]_vars


(* C24: the sweep loop never stops: after every pass, one that hit an      *)
(* error included, the task sleeps and then makes another pass.            *)
C24_SweepLoopNeverStops ==
    /\ [](periodic.pc \in {"run", "sleep"})
    /\ (periodic.pc = "sleep") ~> (periodic.pc = "run")
    /\ (periodic.pc = "run") ~> (periodic.pc = "sleep" /\ last.op = "sweep")

C24_Witness ==
    /\ last.op = "sweep" /\ last.log = "error"
    /\ periodic.pc = "sleep"
    /\ periodic.passes >= 2
    /\ TEMP_DIR[0].kind = "corrupt"

(* C28: a session whose idle time exceeds the threshold is eventually      *)
(* removed (or touched) while the passes keep running, whatever the other  *)
(* entries of temp/ are.                                                   *)
C28_ExpiredEventuallyRemoved ==
    \A s \in Sids : IdleExceeded(s) ~> ~IdleExceeded(s)


(* C25: last_access never decreases: a step that leaves a session in place *)
(* leaves its last_access no smaller than it was and no smaller than       *)
(* created_at, and a touch changes nothing of the session but last_access. *)
C25_LastAccessMonotone ==
    [][\A s \in Sids :
          (TEMP_DIR[s].kind = "ok" /\ TEMP_DIR'[s].kind = "ok")
             => /\ TEMP_DIR'[s].last_access >= TEMP_DIR[s].last_access
                /\ TEMP_DIR'[s].last_access >= TEMP_DIR'[s].created_at
                /\ TEMP_DIR'[s].created_at = TEMP_DIR[s].created_at
                /\ (last'.op = "touch" /\ last'.sid = s /\ last'.ok)
                      => /\ TEMP_DIR'[s].last_access = now
                         /\ DocsOf(s)' = DocsOf(s)
                         /\ \A d \in DocsOf(s) : artifacts'[d] = artifacts[d]]_vars

(* A touch moved last_access of a session created earlier. *)
C25_Witness ==
    /\ last.op = "touch" /\ last.ok
    /\ last.sid \in Sids
    /\ TEMP_DIR[last.sid].kind = "ok"
    /\ TEMP_DIR[last.sid].created_at < TEMP_DIR[last.sid].last_access
    /\ TEMP_DIR[last.sid].last_access = now


(* The directory of session s, the documents in it and its conversation    *)
(* are what they were.                                                     *)
Untouched(s) ==
    /\ TEMP_DIR'[s] = TEMP_DIR[s]
    /\ DocsOf(s)' = DocsOf(s)
    /\ \A d \in DocsOf(s) : artifacts'[d] = artifacts[d]
    /\ CONVERSATIONS'[s] = CONVERSATIONS[s]

C27_NoHistoryWithoutSession ==
    \A s \in Sids : ~Present(s) => ~CONVERSATIONS[s].present

(* A stream ended after its session was deleted. *)
C27_Witness ==
    /\ last.op = "stream_end"
    /\ last.sid \in Sids
    /\ ~Present(last.sid)
    /\ ~CONVERSATIONS[last.sid].present

(* The history is whole exchanges: a user turn, then an assistant turn. *)
Alternates(turns) ==
    /\ Len(turns) % 2 = 0
    /\ \A i \in 1..Len(turns) :
          turns[i].role = (IF i % 2 = 1 THEN "user" ELSE "assistant")

(* C29: once no query on a session is in flight, its history alternates    *)
(* user and assistant turns starting with a user turn.                     *)
C29_HistoryAlternates ==
    \A s \in Sids :
       (app = "ragai" /\ \A i \in 1..Len(streams) : streams[i].sid # s)
          => Alternates(CONVERSATIONS[s].turns)

====
